---- MODULE Spec2Model ----
(***************************************************************************)
(* Santa tracker: the App component (stop registry, Santa motion state,    *)
(* delivery run phase, animation loop) and the Gemini service functions    *)
(* whose results the App applies.                                          *)
(*                                                                         *)
(* React state is modelled with every queued update applied (handlers run  *)
(* to completion on the single UI thread).  stateRef is the snapshot the   *)
(* animation loop reads; it is refreshed by the passive effect of a        *)
(* commit.  Updates made in a click handler are committed, effects         *)
(* included, before the handler's event ends; updates made in an animation *)
(* frame or in the continuation of an awaited promise are committed later, *)
(* so that animation frames can run on a stale snapshot in between.        *)
(*                                                                         *)
(* Coordinates are in thousandths of a degree and times in milliseconds,   *)
(* so that step = 12 deg/s * speed * deltaTime/1000 is the integer         *)
(* 12 * speed * deltaTime.  All stops lie on the meridian of NORTH_POLE,   *)
(* which keeps the Euclidean distance and the interpolation exact.         *)
(***************************************************************************)
EXTENDS Integers, Sequences, FiniteSets, TLC

VARIABLES stops, santa, status, loading, pendingDeliveryStop,
          isGeneratingImage, deliveryImage, completedDeliveryStop,
          stateRef, lastArrivalStopIdRef,
          requests, seqs, nextId, runs, staleFrames,
          requestRef, arrived, lastOp

vars == <<stops, santa, status, loading, pendingDeliveryStop,
          isGeneratingImage, deliveryImage, completedDeliveryStop,
          stateRef, lastArrivalStopIdRef,
          requests, seqs, nextId, runs, staleFrames,
          requestRef, arrived, lastOp>>

----------------------------------------------------------------------------
(* Bounds *)

\* at most MaxStops stops are ever added (ids 1..MaxStops)
MaxStops == 2
\* longest id list the optimizer answers with
MaxOrderLen == 2
\* delivery sequences in flight at the same time
MaxSeqs == 1
\* animation frames that run between a state update and its commit
MaxStaleFrames == 2
\* delivery runs started in one behaviour
MaxRuns == 2
\* stops of the registry of the long route, and its sequences in flight
MaxRouteStops == 4
MaxRouteSeqs == 2

----------------------------------------------------------------------------
(* Constants and types *)

NULL == 0

NORTH_POLE == [lat |-> 84000, lng |-> -40000]

\* latitudes the geocoder answers with (16 and 28 thousandths from the pole)
GeoLats == {83984}

GeoResults == {[lat |-> l, lng |-> NORTH_POLE.lng] : l \in GeoLats}

\* elapsed milliseconds between two animation frames
DeltaTimes == {0, 1, 2}

DegreesPerSecond == 12

\* ARRIVAL epsilon 0.005 degrees
ArrivalEpsilon == 5

UnknownId == 99

StopIds == 1..MaxStops

NullStop == [id |-> NULL, coordinates |-> NORTH_POLE, isDelivered |-> FALSE]

InitialSanta ==
  [currentPosition |-> NORTH_POLE, targetStopId |-> NULL, isPlaying |-> FALSE,
   speed |-> 1, isDelivering |-> FALSE]

----------------------------------------------------------------------------
(* Pure helpers *)

\* Math.sqrt on the values the model produces (exact on perfect squares)
Sqrt(n) == CHOOSE r \in 0..n : r * r <= n /\ n < (r + 1) * (r + 1)

\* division of the interpolation, rounding toward zero
Quot(a, b) == IF a < 0 THEN -((-a) \div b) ELSE a \div b

RemoveAt(s, i) == [j \in 1..(Len(s) - 1) |-> IF j < i THEN s[j] ELSE s[j + 1]]

IdsOf(ss) == [i \in 1..Len(ss) |-> ss[i].id]

IdSet(ss) == {ss[i].id : i \in 1..Len(ss)}

\* stops.find(s => s.id === id): the first match, NullStop for undefined
Find(ss, id) ==
  IF \E i \in 1..Len(ss) : ss[i].id = id
  THEN ss[CHOOSE i \in 1..Len(ss) :
            ss[i].id = id /\ \A j \in 1..(i - 1) : ss[j].id # id]
  ELSE NullStop

Snapshot(sa, ss, st, p) ==
  [santa |-> sa, stops |-> ss, status |-> st, pendingDeliveryStop |-> p]

Op(name, arg) == [op |-> name, arg |-> arg]


----------------------------------------------------------------------------
(* Initial state: the App as constructed *)

Init ==
  /\ stops = <<>>
  /\ santa = InitialSanta
  /\ status = "PLANNING"
  /\ loading = FALSE
  /\ pendingDeliveryStop = NULL
  /\ isGeneratingImage = FALSE
  /\ deliveryImage = FALSE
  /\ completedDeliveryStop = NULL
  /\ stateRef = Snapshot(InitialSanta, <<>>, "PLANNING", NULL)
  /\ lastArrivalStopIdRef = NULL
  /\ requests = <<>>
  /\ seqs = <<>>
  /\ nextId = 1
  /\ runs = 0
  /\ staleFrames = 0
  /\ requestRef = FALSE
  /\ arrived = {}
  /\ lastOp = Op("init", NULL)

----------------------------------------------------------------------------
(* geminiService.ts *)

\* what the optimizer's JSON can carry in optimizedOrder
OptimizerOrders(ss) ==
  UNION {[1..n -> IdSet(ss) \cup {UnknownId}] : n \in 0..MaxOrderLen}

\* a response of the optimizer call: the request throws, or the JSON parses
\* and carries an order or no order field
OptimizerResponses(ss) ==
  {[kind |-> "throws", order |-> <<>>], [kind |-> "noOrder", order |-> <<>>]}
    \cup {[kind |-> "order", order |-> o] : o \in OptimizerOrders(ss)}

\* optimizeRoute without the fallback to the original order
optimizeRoute_NoFallback(ss, resp) ==
  IF Len(ss) <= 1 THEN IdsOf(ss) ELSE resp.order

optimizeRoute(ss, resp) ==
  IF Len(ss) <= 1 THEN IdsOf(ss)
  ELSE IF resp.kind = "order" THEN resp.order
  ELSE IdsOf(ss)

\* stands for a lat or lng of the geocoder's JSON that is not a finite number
NotFinite == 999999

IsFinite(x) == x # NotFinite

\* a response of the geocoder call: the request throws, or the JSON parses
\* and carries found, lat and lng
GeocodeResponses ==
  {[kind |-> "throws", found |-> FALSE, lat |-> NotFinite, lng |-> NotFinite]}
    \cup [kind : {"json"}, found : BOOLEAN,
          lat : GeoLats \cup {NotFinite},
          lng : {NORTH_POLE.lng, NotFinite}]

\* geocodeLocation without the finite checks
geocodeLocation_Unchecked(resp) ==
  IF resp.kind = "json" /\ resp.found
  THEN [found |-> TRUE, coordinates |-> [lat |-> resp.lat, lng |-> resp.lng]]
  ELSE [found |-> FALSE, coordinates |-> NORTH_POLE]

\* geocodeLocation: the coordinates when found with finite lat and lng, else
\* null (found = FALSE here)
geocodeLocation(resp) ==
  IF /\ resp.kind = "json"
     /\ resp.found
     /\ IsFinite(resp.lat)
     /\ IsFinite(resp.lng)
  THEN [found |-> TRUE, coordinates |-> [lat |-> resp.lat, lng |-> resp.lng]]
  ELSE [found |-> FALSE, coordinates |-> NORTH_POLE]

\* geocodeLocation: null (found = FALSE here) or finite coordinates
GeocodeResults == {geocodeLocation(resp) : resp \in GeocodeResponses}

----------------------------------------------------------------------------
(* App: pure parts of the handlers *)

\* optimizedIds.map(id => stops.find(s => s.id === id)).filter(s => s !== undefined)
RECURSIVE Reorder(_, _)
Reorder(ids, ss) ==
  IF ids = <<>> THEN <<>>
  ELSE LET s == Find(ss, Head(ids))
       IN  IF s.id = NULL THEN Reorder(Tail(ids), ss)
           ELSE <<s>> \o Reorder(Tail(ids), ss)

\* prev.map(s => s.id === id ? {...s, isDelivered: true} : s)
MarkDelivered(ss, id) ==
  [i \in 1..Len(ss) |->
     IF ss[i].id = id THEN [ss[i] EXCEPT !.isDelivered = TRUE] ELSE ss[i]]

\* a reset that keeps the delivered flags
ClearDelivered_Keep(ss) == ss

\* prev.map(s => ({...s, isDelivered: false, isNext: false}))
ClearDelivered(ss) ==
  [i \in 1..Len(ss) |-> [ss[i] EXCEPT !.isDelivered = FALSE]]

\* stops.findIndex(s => s.id === id) on the ids of stops, 1-based; 0 stands
\* for JavaScript's -1
FindIndex(ids, id) ==
  IF \E i \in 1..Len(ids) : ids[i] = id
  THEN CHOOSE i \in 1..Len(ids) : ids[i] = id /\ \A j \in 1..(i - 1) : ids[j] # id
  ELSE 0

\* proceedToNextStop: currentIndex < stops.length - 1
HasNext(ids, id) == FindIndex(ids, id) < Len(ids)

\* stops[currentIndex + 1].id
NextStopId(ids, id) == ids[FindIndex(ids, id) + 1]

ProceedSanta(sa, ids, id) ==
  IF HasNext(ids, id)
  THEN [sa EXCEPT !.isPlaying = TRUE, !.targetStopId = NextStopId(ids, id),
                  !.isDelivering = FALSE]
  ELSE [sa EXCEPT !.isDelivering = FALSE]

\* an advance that never finishes the run
ProceedStatus_Stay(st, ids, id) == st

ProceedStatus(st, ids, id) == IF HasNext(ids, id) THEN st ELSE "FINISHED"

ProceedGuard(g, ids, id) == IF HasNext(ids, id) THEN NULL ELSE g

\* isWaitingAtStop && currentStop
IsWaitingAtStop ==
  /\ status = "DELIVERING"
  /\ ~santa.isPlaying
  /\ pendingDeliveryStop = NULL
  /\ ~deliveryImage
  /\ ~isGeneratingImage
  /\ santa.targetStopId # NULL

CurrentStop == Find(stops, santa.targetStopId)

\* the effect on [santa.isPlaying]: when the committed isPlaying toggles the
\* cleanup cancels the requested frame and a true isPlaying requests one
LoopEffect(isPlaying) ==
  IF isPlaying # stateRef.santa.isPlaying THEN isPlaying ELSE requestRef

\* the commit of a click handler's updates, passive effects included
Committed ==
  /\ stateRef' = Snapshot(santa', stops', status', pendingDeliveryStop')
  /\ staleFrames' = 0
  /\ requestRef' = LoopEffect(santa'.isPlaying)

\* updates of a frame or of an async continuation wait for their commit
Uncommitted == UNCHANGED <<stateRef, staleFrames, requestRef>>

----------------------------------------------------------------------------
(* App: planning *)

\* the Add Stop form is submitted (PLANNING, not loading, both inputs filled)
HandleAddStop ==
  /\ status = "PLANNING"
  /\ ~loading
  /\ nextId <= MaxStops
  /\ loading' = TRUE
  /\ requests' = Append(requests, [kind |-> "geocode", stops |-> <<>>])
  /\ lastOp' = Op("handleAddStop", NULL)
  /\ UNCHANGED <<stops, santa, status, pendingDeliveryStop, isGeneratingImage,
                 deliveryImage, completedDeliveryStop, lastArrivalStopIdRef,
                 seqs, nextId, runs, arrived>>
  /\ Committed

\* await geocodeLocation(...) returns and handleAddStop continues
GeocodeReturns(i, result) ==
  /\ requests[i].kind = "geocode"
  /\ requests' = RemoveAt(requests, i)
  /\ IF result.found
     THEN /\ stops' = Append(stops, [id |-> nextId,
                                     coordinates |-> result.coordinates,
                                     isDelivered |-> FALSE])
          /\ nextId' = nextId + 1
     ELSE UNCHANGED <<stops, nextId>>
  /\ loading' = FALSE
  /\ lastOp' = Op("geocodeReturns", IF result.found THEN nextId ELSE NULL)
  /\ Uncommitted
  /\ UNCHANGED <<runs, santa, status, pendingDeliveryStop, isGeneratingImage,
                 deliveryImage, completedDeliveryStop, lastArrivalStopIdRef,
                 seqs, arrived>>

\* the AI Optimize Route button (PLANNING, more than one stop, not loading)
HandleOptimize ==
  /\ status = "PLANNING"
  /\ Len(stops) > 1
  /\ ~loading
  /\ loading' = TRUE
  /\ requests' = Append(requests, [kind |-> "optimize", stops |-> stops])
  /\ lastOp' = Op("handleOptimize", NULL)
  /\ UNCHANGED <<stops, santa, status, pendingDeliveryStop, isGeneratingImage,
                 deliveryImage, completedDeliveryStop, lastArrivalStopIdRef,
                 seqs, nextId, runs, arrived>>
  /\ Committed

\* await optimizeRoute(stops) returns and handleOptimize continues
OptimizeReturns(i, resp) ==
  /\ requests[i].kind = "optimize"
  /\ requests' = RemoveAt(requests, i)
  /\ stops' = Reorder(optimizeRoute(requests[i].stops, resp), requests[i].stops)
  /\ loading' = FALSE
  /\ lastOp' = Op("optimizeReturns", IF resp.kind = "order" THEN 1 ELSE NULL)
  /\ Uncommitted
  /\ UNCHANGED <<santa, status, pendingDeliveryStop, isGeneratingImage,
                 deliveryImage, completedDeliveryStop, lastArrivalStopIdRef,
                 seqs, nextId, runs, arrived>>

\* a start that targets the last stop instead of the first
HandleStartDelivery_LastStop ==
  /\ status = "PLANNING"
  /\ ~loading
  /\ Len(stops) # 0
  /\ runs < MaxRuns
  /\ runs' = runs + 1
  /\ status' = "DELIVERING"
  /\ lastArrivalStopIdRef' = NULL
  /\ santa' = [santa EXCEPT !.isPlaying = TRUE, !.targetStopId = stops[Len(stops)].id,
                            !.isDelivering = FALSE]
  /\ pendingDeliveryStop' = NULL
  /\ deliveryImage' = FALSE
  /\ arrived' = {}
  /\ lastOp' = Op("handleStartDelivery", NULL)
  /\ UNCHANGED <<stops, loading, isGeneratingImage, completedDeliveryStop,
                 requests, seqs, nextId>>
  /\ Committed

\* the Start Delivery Run button (PLANNING, enabled with stops and not loading)
HandleStartDelivery ==
  /\ status = "PLANNING"
  /\ ~loading
  /\ Len(stops) # 0
  /\ runs < MaxRuns
  /\ runs' = runs + 1
  /\ status' = "DELIVERING"
  /\ lastArrivalStopIdRef' = NULL
  /\ santa' = [santa EXCEPT !.isPlaying = TRUE, !.targetStopId = stops[1].id,
                            !.isDelivering = FALSE]
  /\ pendingDeliveryStop' = NULL
  /\ deliveryImage' = FALSE
  /\ arrived' = {}
  /\ lastOp' = Op("handleStartDelivery", NULL)
  /\ UNCHANGED <<stops, loading, isGeneratingImage, completedDeliveryStop,
                 requests, seqs, nextId>>
  /\ Committed

\* the Reset button (rendered whenever the status is not PLANNING)
HandleReset ==
  /\ status # "PLANNING"
  /\ status' = "PLANNING"
  /\ stops' = ClearDelivered(stops)
  /\ santa' = InitialSanta
  /\ pendingDeliveryStop' = NULL
  /\ deliveryImage' = FALSE
  /\ lastArrivalStopIdRef' = NULL
  /\ arrived' = {}
  /\ lastOp' = Op("handleReset", NULL)
  /\ UNCHANGED <<loading, isGeneratingImage, completedDeliveryStop,
                 requests, seqs, nextId, runs>>
  /\ Committed

----------------------------------------------------------------------------
(* App: delivering *)

\* proceedToNextStop(id) run by a handler whose closure holds the stops with
\* these ids
ProceedToNextStop(ids, id) ==
  /\ santa' = ProceedSanta(santa, ids, id)
  /\ status' = ProceedStatus(status, ids, id)
  /\ lastArrivalStopIdRef' = ProceedGuard(lastArrivalStopIdRef, ids, id)

\* executeDeliverySequence(stop) up to its first await; the sequence keeps
\* stop.id and, through proceedToNextStop, the ids of its render's stops
ExecuteDeliverySequence(stopId) ==
  /\ santa' = [santa EXCEPT !.isDelivering = TRUE]
  /\ isGeneratingImage' = TRUE
  /\ stops' = MarkDelivered(stops, stopId)
  /\ seqs' = Append(seqs, [stopId |-> stopId, ids |-> IdsOf(stops),
                         pc |-> "image"])

\* fewer than n delivery sequences are in flight
SeqsBelow(n) == Len(seqs) < n

\* the Deliver button of the confirmation modal
HandleConfirmDelivery ==
  /\ pendingDeliveryStop # NULL
  /\ pendingDeliveryStop' = NULL
  /\ ExecuteDeliverySequence(pendingDeliveryStop)
  /\ lastOp' = Op("executeDeliverySequence", pendingDeliveryStop)
  /\ UNCHANGED <<status, loading, deliveryImage, completedDeliveryStop,
                 lastArrivalStopIdRef, requests, nextId, runs, arrived>>
  /\ Committed

\* the Deliver Present button of the waiting-state controls
DeliverPresent ==
  /\ IsWaitingAtStop
  /\ CurrentStop # NullStop
  /\ ExecuteDeliverySequence(CurrentStop.id)
  /\ lastOp' = Op("executeDeliverySequence", CurrentStop.id)
  /\ UNCHANGED <<status, loading, pendingDeliveryStop, deliveryImage,
                 completedDeliveryStop, lastArrivalStopIdRef, requests, nextId, runs,
                 arrived>>
  /\ Committed

\* await generateDeliveryImage(...) returns, with an image or with null
ImageReturns(i, ok) ==
  /\ seqs[i].pc = "image"
  /\ isGeneratingImage' = FALSE
  /\ IF ok
     THEN /\ deliveryImage' = TRUE
          /\ completedDeliveryStop' = seqs[i].stopId
          /\ seqs' = [seqs EXCEPT ![i].pc = "captionModal"]
     ELSE /\ seqs' = [seqs EXCEPT ![i].pc = "captionTimer"]
          /\ UNCHANGED <<deliveryImage, completedDeliveryStop>>
  /\ lastOp' = Op("imageReturns", NULL)
  /\ Uncommitted
  /\ UNCHANGED <<stops, santa, status, loading, pendingDeliveryStop,
                 lastArrivalStopIdRef, requests, nextId, runs, arrived>>

\* a caption return that ends the sequence on both paths
CaptionReturns_Ends(i) ==
  /\ seqs[i].pc \in {"captionModal", "captionTimer"}
  /\ seqs' = RemoveAt(seqs, i)
  /\ lastOp' = Op("captionReturns", NULL)
  /\ Uncommitted
  /\ UNCHANGED <<stops, santa, status, loading, pendingDeliveryStop,
                 isGeneratingImage, deliveryImage, completedDeliveryStop,
                 lastArrivalStopIdRef, requests, nextId, runs, arrived>>

\* await generateArrivalMessage(...) returns (its text or the canned text)
CaptionReturns(i) ==
  /\ seqs[i].pc \in {"captionModal", "captionTimer"}
  /\ seqs' = IF seqs[i].pc = "captionModal" THEN RemoveAt(seqs, i)
             ELSE [seqs EXCEPT ![i].pc = "timer"]
  /\ lastOp' = Op("captionReturns", NULL)
  /\ Uncommitted
  /\ UNCHANGED <<stops, santa, status, loading, pendingDeliveryStop,
                 isGeneratingImage, deliveryImage, completedDeliveryStop,
                 lastArrivalStopIdRef, requests, nextId, runs, arrived>>

\* the 3000 ms timer of the no-image path fires: proceedToNextStop(stop.id)
TimerFires(i) ==
  /\ seqs[i].pc = "timer"
  /\ ProceedToNextStop(seqs[i].ids, seqs[i].stopId)
  /\ seqs' = RemoveAt(seqs, i)
  /\ lastOp' = Op("timerFires", seqs[i].stopId)
  /\ Uncommitted
  /\ UNCHANGED <<stops, loading, pendingDeliveryStop, isGeneratingImage,
                 deliveryImage, completedDeliveryStop, requests, nextId, runs, arrived>>

\* the Next Stop button of the delivery image modal
HandleCloseDeliveryModal ==
  /\ deliveryImage
  /\ completedDeliveryStop # NULL
  /\ deliveryImage' = FALSE
  /\ completedDeliveryStop' = NULL
  /\ IF santa.targetStopId # NULL
     THEN ProceedToNextStop(IdsOf(stops), santa.targetStopId)
     ELSE UNCHANGED <<santa, status, lastArrivalStopIdRef>>
  /\ lastOp' = Op("handleCloseDeliveryModal", santa.targetStopId)
  /\ UNCHANGED <<stops, loading, pendingDeliveryStop, isGeneratingImage,
                 requests, seqs, nextId, runs, arrived>>
  /\ Committed

HandleSkipStop(stopId) ==
  /\ pendingDeliveryStop' = NULL
  /\ ProceedToNextStop(IdsOf(stops), stopId)
  /\ lastOp' = Op("handleSkipStop", stopId)
  /\ UNCHANGED <<stops, loading, isGeneratingImage, deliveryImage,
                 completedDeliveryStop, requests, seqs, nextId, runs, arrived>>
  /\ Committed

\* the Skip button of the confirmation modal
SkipPending ==
  /\ pendingDeliveryStop # NULL
  /\ HandleSkipStop(pendingDeliveryStop)

\* the Skip Stop button of the waiting-state controls
SkipWaiting ==
  /\ IsWaitingAtStop
  /\ CurrentStop # NullStop
  /\ HandleSkipStop(CurrentStop.id)

\* the close button of the confirmation modal
HandleCancelDelivery ==
  /\ pendingDeliveryStop # NULL
  /\ pendingDeliveryStop' = NULL
  /\ lastOp' = Op("handleCancelDelivery", NULL)
  /\ UNCHANGED <<stops, santa, status, loading, isGeneratingImage,
                 deliveryImage, completedDeliveryStop, lastArrivalStopIdRef,
                 requests, seqs, nextId, runs, arrived>>
  /\ Committed

----------------------------------------------------------------------------
(* App: animation loop *)

Step(speed, deltaTime) == DegreesPerSecond * speed * deltaTime

\* the non-finite numbers of the coordinate arithmetic; -Infinity is the
\* negative of Infinity
NaN == 999998

Infinity == 999997

isNaN(x) == x = NaN

isInfinite(x) == x = Infinity \/ x = -Infinity

isFinite(x) == ~isNaN(x) /\ ~isInfinite(x)

\* a - b
Minus[a \in Int, b \in Int] ==
  IF isNaN(a) \/ isNaN(b) THEN NaN
  ELSE IF isInfinite(a) THEN (IF a = b THEN NaN ELSE a)
  ELSE IF isInfinite(b) THEN -b
  ELSE a - b

\* a + b
Plus[a \in Int, b \in Int] ==
  IF isNaN(a) \/ isNaN(b) THEN NaN
  ELSE IF isInfinite(a) THEN (IF a = -b THEN NaN ELSE a)
  ELSE IF isInfinite(b) THEN b
  ELSE a + b

\* Math.sqrt(x * x + y * y)
Hypot[x \in Int, y \in Int] ==
  IF isNaN(x) \/ isNaN(y) THEN NaN
  ELSE IF isInfinite(x) \/ isInfinite(y) THEN Infinity
  ELSE Sqrt(x * x + y * y)

Dist(dLat, dLng) == Hypot[dLat, dLng]

\* d * ratio, ratio = step / dist with a finite step and dist > 0: the ratio
\* is 0 for an infinite dist, and Infinity * 0 is NaN
Scaled[d \in Int, step \in Int, dist \in Int] ==
  IF isNaN(d) THEN NaN
  ELSE IF isInfinite(dist) THEN (IF isInfinite(d) THEN NaN ELSE 0)
  ELSE Quot(d * step, dist)

\* dist <= step || dist < 0.005
Arrived(dist, step) == dist <= step \/ dist < ArrivalEpsilon

\* prev.currentPosition + (dLat, dLng) * ratio, ratio = step / dist
MoveToward(pos, dLat, dLng, step, dist) ==
  [lat |-> Plus[pos.lat, Scaled[dLat, step, dist]],
   lng |-> Plus[pos.lng, Scaled[dLng, step, dist]]]

Dirty == stateRef # Snapshot(santa, stops, status, pendingDeliveryStop)

\* the frame computes a distance: playing, a target found in the registry
\* and neither coordinate of the target NaN
HasTarget ==
  LET currentSanta == stateRef.santa
      targetStop == Find(stateRef.stops, currentSanta.targetStopId)
  IN /\ currentSanta.isPlaying
     /\ currentSanta.targetStopId # NULL
     /\ targetStop # NullStop
     /\ ~isNaN(targetStop.coordinates.lat)
     /\ ~isNaN(targetStop.coordinates.lng)

\* the distance of the frame from stateRef.current
FrameDist ==
  LET currentSanta == stateRef.santa
      targetStop == Find(stateRef.stops, currentSanta.targetStopId)
  IN Dist(Minus[targetStop.coordinates.lat, currentSanta.currentPosition.lat],
          Minus[targetStop.coordinates.lng, currentSanta.currentPosition.lng])

\* if (isNaN(dist)) return; the frame ends before it requests the next one
ReturnsEarly == HasTarget /\ isNaN(FrameDist)

\* one callback of requestAnimationFrame; it runs when a frame is requested
\* and requests the next one at its end
Animate(deltaTime) ==
  LET currentSanta == stateRef.santa
      targetStop == Find(stateRef.stops, currentSanta.targetStopId)
      dLat == Minus[targetStop.coordinates.lat, currentSanta.currentPosition.lat]
      dLng == Minus[targetStop.coordinates.lng, currentSanta.currentPosition.lng]
      dist == Dist(dLat, dLng)
      step == Step(currentSanta.speed, deltaTime)
  IN
  /\ requestRef
  /\ Dirty => staleFrames < MaxStaleFrames
  /\ staleFrames' = IF Dirty THEN staleFrames + 1 ELSE 0
  /\ lastOp' = Op("animate", NULL)
  /\ requestRef' = ~ReturnsEarly
  /\ IF HasTarget /\ ~ReturnsEarly
     THEN IF Arrived(dist, step)
          THEN IF lastArrivalStopIdRef # targetStop.id
               THEN /\ lastArrivalStopIdRef' = targetStop.id
                    /\ santa' = [santa EXCEPT
                                   !.currentPosition = targetStop.coordinates,
                                   !.isPlaying = FALSE]
                    /\ arrived' = IF status = "PLANNING" THEN arrived
                                  ELSE arrived \cup {targetStop.id}
                    /\ pendingDeliveryStop' = targetStop.id
               ELSE UNCHANGED <<lastArrivalStopIdRef, santa, arrived,
                                pendingDeliveryStop>>
          ELSE /\ santa' = IF dist # 0
                           THEN [santa EXCEPT !.currentPosition =
                                   MoveToward(santa.currentPosition, dLat, dLng,
                                              step, dist)]
                           ELSE santa
               /\ UNCHANGED <<lastArrivalStopIdRef, arrived, pendingDeliveryStop>>
     ELSE UNCHANGED <<lastArrivalStopIdRef, santa, arrived, pendingDeliveryStop>>
  /\ UNCHANGED <<stops, status, loading, isGeneratingImage, deliveryImage,
                 completedDeliveryStop, stateRef, requests, seqs, nextId, runs>>

\* the passive effects of a commit: stateRef.current is refreshed and the
\* animation loop is started or cancelled after isPlaying
SyncStateRef ==
  /\ Dirty
  /\ stateRef' = Snapshot(santa, stops, status, pendingDeliveryStop)
  /\ staleFrames' = 0
  /\ requestRef' = LoopEffect(santa.isPlaying)
  /\ lastOp' = Op("commit", NULL)
  /\ UNCHANGED <<stops, santa, status, loading, pendingDeliveryStop,
                 isGeneratingImage, deliveryImage, completedDeliveryStop,
                 lastArrivalStopIdRef, requests, seqs, nextId, runs, arrived>>

----------------------------------------------------------------------------
(* Specification *)

Next ==
  \/ HandleAddStop
  \/ \E i \in 1..Len(requests) : \E r \in GeocodeResults : GeocodeReturns(i, r)
  \/ HandleOptimize
  \/ \E i \in 1..Len(requests) :
       \E r \in OptimizerResponses(requests[i].stops) : OptimizeReturns(i, r)
  \/ HandleStartDelivery
  \/ HandleReset
  \/ SeqsBelow(MaxSeqs) /\ HandleConfirmDelivery
  \/ SeqsBelow(MaxSeqs) /\ DeliverPresent
  \/ \E i \in 1..Len(seqs) : \E ok \in BOOLEAN : ImageReturns(i, ok)
  \/ \E i \in 1..Len(seqs) : CaptionReturns(i)
  \/ \E i \in 1..Len(seqs) : TimerFires(i)
  \/ HandleCloseDeliveryModal
  \/ SkipPending
  \/ SkipWaiting
  \/ HandleCancelDelivery
  \/ \E dt \in DeltaTimes : Animate(dt)
  \/ SyncStateRef

Spec == Init /\ [][Next]_vars

----------------------------------------------------------------------------
(* One delivery run without reset, from a planned registry, with the         *)
(* fairness of the event loop: commits happen, frames with positive elapsed  *)
(* time keep running, awaited calls return, timers fire, and the user        *)
(* answers the modals and the waiting-state controls.                        *)

StopsAt(cs) ==
  [i \in 1..Len(cs) |-> [id |-> i, coordinates |-> cs[i], isDelivered |-> FALSE]]

\* the registries addStop alone produces
AddedRegistries ==
  {StopsAt(cs) : cs \in UNION {[1..n -> GeoResults] : n \in 1..MaxStops}}

\* the registries handleOptimize leaves from an added registry
OptimizedRegistries(b) ==
  IF Len(b) > 1
  THEN {Reorder(optimizeRoute(b, r), b) : r \in OptimizerResponses(b)}
  ELSE {}

\* the App after planning, committed, before the run starts
LiveInit ==
  /\ \E b \in AddedRegistries :
       /\ stops \in {b} \cup OptimizedRegistries(b)
       /\ nextId = Len(b) + 1
  /\ santa = InitialSanta
  /\ status = "PLANNING"
  /\ loading = FALSE
  /\ pendingDeliveryStop = NULL
  /\ isGeneratingImage = FALSE
  /\ deliveryImage = FALSE
  /\ completedDeliveryStop = NULL
  /\ stateRef = Snapshot(InitialSanta, stops, "PLANNING", NULL)
  /\ lastArrivalStopIdRef = NULL
  /\ requests = <<>>
  /\ seqs = <<>>
  /\ runs = 0
  /\ staleFrames = 0
  /\ requestRef = FALSE
  /\ arrived = {}
  /\ lastOp = Op("commit", NULL)

PositiveFrame == \E dt \in DeltaTimes \ {0} : Animate(dt)

AnswerConfirmation(n) ==
  \/ SeqsBelow(n) /\ HandleConfirmDelivery
  \/ SkipPending
  \/ HandleCancelDelivery

ResumeWaiting(n) ==
  \/ SeqsBelow(n) /\ DeliverPresent
  \/ SkipWaiting

ImageReturn == \E i \in 1..Len(seqs) : \E ok \in BOOLEAN : ImageReturns(i, ok)

CaptionReturn == \E i \in 1..Len(seqs) : CaptionReturns(i)

TimerFire == \E i \in 1..Len(seqs) : TimerFires(i)

\* the steps of the delivery sequence at position i
ImageReturnAt(i) ==
  i \in 1..Len(seqs) /\ \E ok \in BOOLEAN : ImageReturns(i, ok)

CaptionReturnAt(i) == i \in 1..Len(seqs) /\ CaptionReturns(i)

TimerFireAt(i) == i \in 1..Len(seqs) /\ TimerFires(i)

\* every delivery sequence of up to n in flight gets its awaited calls
\* returned and its timer fired
SequenceFairness(n) ==
  \A i \in 1..n :
    /\ WF_vars(ImageReturnAt(i))
    /\ WF_vars(CaptionReturnAt(i))
    /\ WF_vars(TimerFireAt(i))

LiveNext ==
  \/ HandleStartDelivery
  \/ AnswerConfirmation(MaxSeqs)
  \/ ResumeWaiting(MaxSeqs)
  \/ ImageReturn
  \/ CaptionReturn
  \/ TimerFire
  \/ HandleCloseDeliveryModal
  \/ \E dt \in DeltaTimes : Animate(dt)
  \/ SyncStateRef

LiveSpec ==
  /\ LiveInit
  /\ [][LiveNext]_vars
  /\ WF_vars(SyncStateRef)
  /\ WF_vars(PositiveFrame)
  /\ SequenceFairness(MaxSeqs)
  /\ WF_vars(HandleCloseDeliveryModal)
  /\ WF_vars(AnswerConfirmation(MaxSeqs))
  /\ WF_vars(ResumeWaiting(MaxSeqs))

----------------------------------------------------------------------------
(* One delivery run without reset over a registry of MaxRouteStops added     *)
(* stops, with the same fairness; every frame runs on a committed snapshot   *)
(* with positive elapsed time.                                               *)

RouteStopIds == 1..MaxRouteStops

RouteInit ==
  /\ stops = StopsAt([i \in RouteStopIds |-> CHOOSE c \in GeoResults : TRUE])
  /\ nextId = MaxRouteStops + 1
  /\ santa = InitialSanta
  /\ status = "PLANNING"
  /\ loading = FALSE
  /\ pendingDeliveryStop = NULL
  /\ isGeneratingImage = FALSE
  /\ deliveryImage = FALSE
  /\ completedDeliveryStop = NULL
  /\ stateRef = Snapshot(InitialSanta, stops, "PLANNING", NULL)
  /\ lastArrivalStopIdRef = NULL
  /\ requests = <<>>
  /\ seqs = <<>>
  /\ runs = 0
  /\ staleFrames = 0
  /\ requestRef = FALSE
  /\ arrived = {}
  /\ lastOp = Op("commit", NULL)

CommittedFrame == ~Dirty /\ PositiveFrame

RouteNext ==
  \/ HandleStartDelivery
  \/ AnswerConfirmation(MaxRouteSeqs)
  \/ ResumeWaiting(MaxRouteSeqs)
  \/ ImageReturn
  \/ CaptionReturn
  \/ TimerFire
  \/ HandleCloseDeliveryModal
  \/ CommittedFrame
  \/ SyncStateRef

RouteSpec ==
  /\ RouteInit
  /\ [][RouteNext]_vars
  /\ WF_vars(SyncStateRef)
  /\ WF_vars(CommittedFrame)
  /\ SequenceFairness(MaxRouteSeqs)
  /\ WF_vars(HandleCloseDeliveryModal)
  /\ WF_vars(AnswerConfirmation(MaxRouteSeqs))
  /\ WF_vars(ResumeWaiting(MaxRouteSeqs))

----------------------------------------------------------------------------
(* Claims *)

\* the step ran the arrival side effects (chime, pending confirmation) for id
ArrivalEffects(id) ==
  /\ lastOp'.op = "animate"
  /\ lastArrivalStopIdRef # id
  /\ lastArrivalStopIdRef' = id
  /\ pendingDeliveryStop' = id

Delivered(ss, id) == \E i \in 1..Len(ss) : ss[i].id = id /\ ss[i].isDelivered

\* no id occurs twice in the stops ss
DistinctIds(ss) == Cardinality(IdSet(ss)) = Len(ss)

\* C1: within one run (status not PLANNING), the arrival side effects of a
\* stop run at most once: they never run for a stop that already had them
\* in this run.  Stated for registries whose ids are distinct, the only ones
\* addStop produces.
C1_ArrivalEffectsOnce ==
  [][\A id \in StopIds :
       (/\ status # "PLANNING"
        /\ DistinctIds(stops) /\ DistinctIds(stateRef.stops)
        /\ ArrivalEffects(id)) => id \notin arrived]_vars

\* C2: a delivered flag becomes true only in the step that starts the delivery
\* sequence of that stop, and the flag of a stop that stays in the registry
\* becomes false again only in a reset.
C2_DeliveredOnlyByDelivery ==
  [][\A id \in StopIds :
       /\ (~Delivered(stops, id) /\ Delivered(stops', id))
            => lastOp' = Op("executeDeliverySequence", id)
       /\ (Delivered(stops, id) /\ ~Delivered(stops', id)
              /\ id \in IdSet(stops'))
            => lastOp'.op = "handleReset"]_vars

\* the last step called proceedToNextStop (advance)
AdvanceOps == {"timerFires", "handleSkipStop", "handleCloseDeliveryModal"}

Advanced == lastOp.op \in AdvanceOps /\ lastOp.arg # NULL

\* C3: after every call of advance the phase is FINISHED or the target is the
\* id of a stop of the registry as it is then.
C3_AdvanceTargetInRegistry ==
  Advanced => (status = "FINISHED" \/ santa.targetStopId \in IdSet(stops))

\* a is a permutation of b (same ids, each as often)
IsPermutation(a, b) ==
  /\ Len(a) = Len(b)
  /\ \A x \in {a[i] : i \in 1..Len(a)} \cup {b[i] : i \in 1..Len(b)} :
       Cardinality({i \in 1..Len(a) : a[i] = x})
         = Cardinality({i \in 1..Len(b) : b[i] = x})

\* C4: whatever id list the optimizer returns, once handleOptimize has applied
\* it the registry holds exactly the stops of the call, each once.
C4_OptimizeIsPermutation ==
  [][\A i \in 1..Len(requests) :
       (lastOp'.op = "optimizeReturns" /\ requests' = RemoveAt(requests, i))
         => IsPermutation(IdsOf(stops'), IdsOf(requests[i].stops))]_vars

\* C5: the phase changes only PLANNING -> DELIVERING (startRun),
\* DELIVERING -> FINISHED (advance) or to PLANNING (reset).
C5_PhaseTransitions ==
  [][status' # status =>
       \/ status = "PLANNING" /\ status' = "DELIVERING"
            /\ lastOp'.op = "handleStartDelivery"
       \/ status = "DELIVERING" /\ status' = "FINISHED"
            /\ lastOp'.op \in AdvanceOps
       \/ status' = "PLANNING" /\ lastOp'.op = "handleReset"]_vars

\* the frame that ran with deltaTime read a playing snapshot whose target is
\* in the snapshot's stops and met the arrival condition
ArrivalFrame(deltaTime) ==
  LET cs == stateRef.santa
      ts == Find(stateRef.stops, cs.targetStopId)
  IN  /\ Animate(deltaTime)
      /\ cs.isPlaying /\ cs.targetStopId # NULL /\ ts # NullStop
      /\ Arrived(Dist(ts.coordinates.lat - cs.currentPosition.lat,
                      ts.coordinates.lng - cs.currentPosition.lng),
                 Step(cs.speed, deltaTime))

\* C7: after a frame that met the arrival condition, the position is the
\* target's coordinate and playing is false.
C7_ArrivalSnaps ==
  [][\A dt \in DeltaTimes :
       ArrivalFrame(dt) =>
         /\ santa'.currentPosition
              = Find(stateRef.stops, stateRef.santa.targetStopId).coordinates
         /\ ~santa'.isPlaying]_vars

\* C10: right after reset the phase is PLANNING, no stop is delivered, Santa
\* is idle at the North Pole, nothing is pending, the arrival guard is clear,
\* and the stop list has the ids it had, in the same order.
C10_ResetState ==
  [][lastOp'.op = "handleReset" =>
       /\ status' = "PLANNING"
       /\ \A i \in 1..Len(stops') : ~stops'[i].isDelivered
       /\ santa' = [currentPosition |-> NORTH_POLE, targetStopId |-> NULL,
                    isPlaying |-> FALSE, speed |-> 1, isDelivering |-> FALSE]
       /\ pendingDeliveryStop' = NULL
       /\ lastArrivalStopIdRef' = NULL
       /\ IdsOf(stops') = IdsOf(stops)]_vars

TargetStop == Find(stops, santa.targetStopId)

\* Santa stands at the target stop and its confirmation is pending
ArrivedAtTarget ==
  /\ ~santa.isPlaying
  /\ santa.targetStopId # NULL
  /\ santa.currentPosition = TargetStop.coordinates
  /\ pendingDeliveryStop = santa.targetStopId

\* C6: startRun sets the target to the first stop with playing true, and then
\* (frames with positive elapsed time keep running, no reset) eventually
\* playing is false, the position is the target's coordinate and the target's
\* confirmation is pending.
C6_StartReachesArrival ==
  [](lastOp.op = "handleStartDelivery" =>
       /\ santa.targetStopId = stops[1].id
       /\ santa.isPlaying
       /\ <>ArrivedAtTarget)

\* a delivery sequence has just been started for the stop id Santa has arrived
\* at, which is not the last stop of a registry of at least two stops
DeliveryStartedAtNonLast(id) ==
  /\ lastOp = Op("executeDeliverySequence", id)
  /\ santa.targetStopId = id
  /\ ~santa.isPlaying
  /\ Len(stops) >= 2
  /\ HasNext(IdsOf(stops), id)

\* an advance has just set the target to the stop after id, with playing true
AdvancedToNext(id) ==
  /\ Advanced
  /\ HasNext(IdsOf(stops), id)
  /\ santa.targetStopId = NextStopId(IdsOf(stops), id)
  /\ santa.isPlaying

\* C8: a delivery confirmed at a non-last stop A marks A delivered, and
\* (AI calls return, the image modal is dismissed, no reset) eventually an
\* advance sets the target to the stop after A with playing true.
C8_ConfirmAdvancesToNext ==
  \A id \in RouteStopIds :
    [](DeliveryStartedAtNonLast(id) =>
         /\ Delivered(stops, id)
         /\ <>AdvancedToNext(id))

\* C9: a started run (frames keep running, AI calls return, the user answers
\* every modal and resumes from the waiting state) eventually reaches FINISHED.
C9_RunFinishes ==
  [](status = "DELIVERING" => <>(status = "FINISHED"))

\* a reset pressed while a delivery sequence is still generating its image,
\* with two stops in the registry
C10_Witness ==
  /\ lastOp.op = "handleReset"
  /\ Len(stops) = 2
  /\ seqs # <<>>
  /\ isGeneratingImage

\* C11: right after reset, whenever in a delivery sequence it is pressed,
\* there is no delivery image, no completed-delivery stop, and the
\* image-generation flag is false.
C11_ResetClearsArtifacts ==
  [][lastOp'.op = "handleReset" =>
       /\ ~deliveryImage'
       /\ completedDeliveryStop' = NULL
       /\ ~isGeneratingImage']_vars

\* C12: skipStop(id), from the confirmation modal or the waiting state,
\* clears the pending confirmation and advances from id without changing any
\* stop (so no delivered flag); when id is the last stop the phase becomes
\* FINISHED and delivered(id) stays as it was.
C12_SkipAdvancesWithoutDelivery ==
  [][\A id \in StopIds :
       lastOp' = Op("handleSkipStop", id) =>
         /\ pendingDeliveryStop' = NULL
         /\ stops' = stops
         /\ santa' = ProceedSanta(santa, IdsOf(stops), id)
         /\ (~HasNext(IdsOf(stops), id) =>
               /\ status' = "FINISHED"
               /\ Delivered(stops', id) = Delivered(stops, id))
         /\ (HasNext(IdsOf(stops), id) => status' = status)]_vars

\* the only stop of the registry was skipped from its confirmation and the
\* run is finished with the stop undelivered
C12_Witness ==
  /\ lastOp = Op("handleSkipStop", 1)
  /\ IdsOf(stops) = <<1>>
  /\ status = "FINISHED"
  /\ ~Delivered(stops, 1)
  /\ pendingDeliveryStop = NULL

\* the geocoder call failed as the claim lists: service error, found = false,
\* or a latitude or longitude that is not a finite number
GeocodingFails(resp) ==
  \/ resp.kind = "throws"
  \/ ~resp.found
  \/ ~IsFinite(resp.lat)
  \/ ~IsFinite(resp.lng)

FiniteCoordinates(ss) ==
  \A i \in 1..Len(ss) :
    IsFinite(ss[i].coordinates.lat) /\ IsFinite(ss[i].coordinates.lng)

\* C13: when geocoding fails, addStop leaves the registry, the motion state,
\* the phase and everything but the loading flag unchanged; and every stop of
\* the registry has finite coordinates.
C13_FailedGeocodeAddsNothing ==
  [][\A i \in 1..Len(requests) : \A resp \in GeocodeResponses :
       GeocodeReturns(i, geocodeLocation(resp)) =>
         /\ FiniteCoordinates(stops')
         /\ GeocodingFails(resp) =>
              /\ ~loading'
              /\ UNCHANGED <<stops, santa, status, pendingDeliveryStop,
                             isGeneratingImage, deliveryImage,
                             completedDeliveryStop, lastArrivalStopIdRef,
                             nextId>>]_vars

\* a failed geocoding has returned with one stop in the registry
C13_Witness ==
  /\ lastOp = Op("geocodeReturns", NULL)
  /\ Len(stops) = 1
  /\ nextId = 2
  /\ ~loading
  /\ requests = <<>>
  /\ status = "PLANNING"
  /\ runs = 0

\* C14: startRun takes effect only in PLANNING with a non-empty registry; it
\* sets the phase DELIVERING, the target to the first stop, playing true,
\* isDelivering false, no pending confirmation, and clears the arrival guard.
C14_StartRunEffect ==
  [][lastOp'.op = "handleStartDelivery" =>
       /\ status = "PLANNING"
       /\ Len(stops) > 0
       /\ status' = "DELIVERING"
       /\ santa'.targetStopId = stops[1].id
       /\ santa'.isPlaying
       /\ ~santa'.isDelivering
       /\ pendingDeliveryStop' = NULL
       /\ lastArrivalStopIdRef' = NULL
       /\ stops' = stops]_vars

\* a second run has just been started over two stops
C14_Witness ==
  /\ lastOp.op = "handleStartDelivery"
  /\ Len(stops) = 2
  /\ runs = 2
  /\ status = "DELIVERING"

\* a delivery sequence whose image generation failed is waiting for its
\* caption or its 3-second timer
FailedImageSequence ==
  \E i \in 1..Len(seqs) : seqs[i].pc \in {"captionTimer", "timer"}

\* C15: when image generation fails no image modal is shown by the sequence
\* and its timer advances by itself after the caption and the 3-second delay;
\* when it succeeds the sequence shows the modal and ends with its caption
\* without advancing, and the advance is made by the dismissal of the modal.
C15_ImageFailureAutoAdvances ==
  /\ [][\A i \in 1..Len(seqs) :
          /\ ImageReturns(i, FALSE) =>
               /\ deliveryImage' = deliveryImage
               /\ completedDeliveryStop' = completedDeliveryStop
               /\ santa' = santa /\ status' = status
          /\ ImageReturns(i, TRUE) =>
               /\ deliveryImage' /\ completedDeliveryStop' = seqs[i].stopId
               /\ santa' = santa /\ status' = status
          /\ (CaptionReturns(i) /\ seqs[i].pc = "captionModal") =>
               /\ seqs' = RemoveAt(seqs, i)
               /\ santa' = santa /\ status' = status
          /\ TimerFires(i) =>
               /\ santa' = ProceedSanta(santa, seqs[i].ids, seqs[i].stopId)
               /\ status' = ProceedStatus(status, seqs[i].ids, seqs[i].stopId)]_vars
  /\ [](FailedImageSequence => <>(lastOp.op = "timerFires"))

\* the timer of a sequence whose image failed has advanced to the second stop
C15_Witness ==
  /\ lastOp = Op("timerFires", 1)
  /\ IdsOf(stops) = <<1, 2>>
  /\ santa.targetStopId = 2
  /\ santa.isPlaying
  /\ ~deliveryImage
  /\ completedDeliveryStop = NULL

\* the optimizer call failed: the request throws or the response has no order
OptimizerFails(resp) == resp.kind \in {"throws", "noOrder"}

\* C16: when the optimizer call fails, optimizeRoute returns the ids of its
\* input in their order, and after handleOptimize has applied it the registry
\* holds the stops of the call, in the same order.
C16_OptimizerFailureKeepsOrder ==
  [][\A i \in 1..Len(requests) :
       \A resp \in OptimizerResponses(requests[i].stops) :
         (OptimizerFails(resp) /\ OptimizeReturns(i, resp)) =>
           /\ optimizeRoute(requests[i].stops, resp) = IdsOf(requests[i].stops)
           /\ stops' = requests[i].stops
           /\ IdsOf(stops') = IdsOf(stops)]_vars

\* a failed optimizer call has returned with two stops in the registry
C16_Witness ==
  /\ lastOp = Op("optimizeReturns", NULL)
  /\ IdsOf(stops) = <<1, 2>>
  /\ ~loading
  /\ requests = <<>>

\* C17: while the phase is DELIVERING or FINISHED no step changes the
\* registry's sequence of ids.
C17_RegistryFrozenInRun ==
  [][(status \in {"DELIVERING", "FINISHED"}) =>
       IdsOf(stops') = IdsOf(stops)]_vars

PendingStop == Find(stops, pendingDeliveryStop)

\* C18: whenever a confirmation is pending, the phase is DELIVERING, playing
\* is false, the target is the pending stop and Santa is at its coordinate.
C18_PendingMeansArrived ==
  pendingDeliveryStop # NULL =>
    /\ status = "DELIVERING"
    /\ ~santa.isPlaying
    /\ santa.targetStopId = pendingDeliveryStop
    /\ santa.currentPosition = PendingStop.coordinates

\* the step is an advance that assigned a new target (the branch of
\* proceedToNextStop that finds a next stop) during a run
AdvanceAssignsTarget ==
  /\ lastOp'.op \in AdvanceOps
  /\ lastOp'.arg # NULL
  /\ status = "DELIVERING"
  /\ status' = "DELIVERING"
  /\ santa'.isPlaying
  /\ lastArrivalStopIdRef' = NULL

\* C19: within a run over a registry of distinct ids, every advance that
\* assigns the target moves it from a stop at which Santa has arrived to the
\* stop at exactly the next index.
C19_TargetFollowsOrder ==
  [][(AdvanceAssignsTarget /\ DistinctIds(stops)) =>
       /\ santa.targetStopId \in IdSet(stops)
       /\ santa.targetStopId \in arrived
       /\ FindIndex(IdsOf(stops), santa'.targetStopId)
            = FindIndex(IdsOf(stops), santa.targetStopId) + 1]_vars

\* the step called advance from the stop id with the stops of these ids
AdvanceFrom(ids, id) ==
  /\ lastOp'.op \in AdvanceOps
  /\ lastOp'.arg = id
  /\ ProceedToNextStop(ids, id)

\* C20: an advance from a stop that is not the last sets the target to the
\* next stop, playing true, clears the arrival guard and leaves the phase
\* DELIVERING; from the last stop it sets the phase FINISHED; and in every
\* state FINISHED implies that playing and isDelivering are false and that no
\* confirmation is pending.
C20_FinishedMeansStopped ==
  /\ [][\A id \in StopIds :
          AdvanceFrom(IdsOf(stops), id) =>
            IF HasNext(IdsOf(stops), id)
            THEN /\ santa'.targetStopId = NextStopId(IdsOf(stops), id)
                 /\ santa'.isPlaying
                 /\ lastArrivalStopIdRef' = NULL
                 /\ status' = "DELIVERING"
            ELSE status' = "FINISHED"]_vars
  /\ [](status = "FINISHED" =>
          /\ ~santa.isPlaying
          /\ ~santa.isDelivering
          /\ pendingDeliveryStop = NULL)

\* the step is a confirmDelivery of the pending stop id
ConfirmedDelivery(id) ==
  /\ pendingDeliveryStop = id
  /\ lastOp' = Op("executeDeliverySequence", id)

\* C21: confirmDelivery acts only on a pending confirmation; in its own step
\* the pending confirmation is cleared, isDelivering becomes true and the
\* confirmed stop is delivered, while playing is false and the position and
\* the target are unchanged.
C21_ConfirmMarksDelivered ==
  [][\A id \in StopIds :
       ConfirmedDelivery(id) =>
         /\ pendingDeliveryStop' = NULL
         /\ santa'.isDelivering
         /\ Delivered(stops', id)
         /\ ~santa'.isPlaying
         /\ santa'.currentPosition = santa.currentPosition
         /\ santa'.targetStopId = santa.targetStopId]_vars

\* what the presentation boundary shows of the run
RunState == <<stops, santa, status, pendingDeliveryStop, deliveryImage,
              completedDeliveryStop, isGeneratingImage, lastArrivalStopIdRef>>

\* the user's ways out of the waiting state: deliver, skip, reset
UserResumes == lastOp'.op \in {"executeDeliverySequence", "handleSkipStop",
                               "handleReset"}

\* C22: cancelConfirmation clears the pending confirmation and changes nothing
\* else (phase, registry, delivered flags, position, target, playing = false
\* and the arrival guard stay); after it, while Santa waits at the stop, the
\* run state changes only by a user deliver, skip or reset, never by a frame
\* or a timer.
C22_CancelOnlyClearsPending ==
  [][/\ lastOp'.op = "handleCancelDelivery" =>
          /\ pendingDeliveryStop' = NULL
          /\ UNCHANGED <<stops, santa, status, lastArrivalStopIdRef>>
          /\ ~santa'.isPlaying
     /\ (lastOp.op = "handleCancelDelivery" /\ RunState' # RunState) =>
          UserResumes]_vars

\* C23: gated by the loading flag, at most one geocode or optimize request is
\* in flight, startRun never happens while one is in flight, and the registry
\* that a returning handleOptimize overwrites is the registry it read when it
\* was issued.
C23_OneRequestInFlight ==
  [][/\ Len(requests') <= 1
     /\ lastOp'.op = "handleStartDelivery" => requests = <<>>
     /\ lastOp'.op = "optimizeReturns" =>
          \A i \in 1..Len(requests) : stops = requests[i].stops]_vars

\* a delivery sequence of the stop id is in progress (image call, caption
\* call or the 3-second delay pending)
SequenceInProgress(id) == \E i \in 1..Len(seqs) : seqs[i].stopId = id

\* C24: at most one delivery sequence is in flight, and while the sequence of
\* a stop is in progress no user control starts a second sequence for that
\* stop or skips it (advance is called once per arrival).
C24_OneSequencePerArrival ==
  [][/\ Len(seqs') <= 1
     /\ \A id \in RouteStopIds :
          (/\ SequenceInProgress(id)
           /\ lastOp'.op \in {"executeDeliverySequence", "handleSkipStop"})
            => lastOp'.arg # id]_vars

\* C25: in every state with status PLANNING, completions of delivery
\* sequences started before a reset included, the target is null, playing is
\* false, the position is NORTH_POLE, no confirmation is pending and no stop
\* is delivered.
C25_PlanningIsPristine ==
  status = "PLANNING" =>
    /\ santa.targetStopId = NULL
    /\ ~santa.isPlaying
    /\ santa.currentPosition = NORTH_POLE
    /\ pendingDeliveryStop = NULL
    /\ \A i \in 1..Len(stops) : ~stops[i].isDelivered

\* the delivery image modal is displayed
ImageModalShown == deliveryImage /\ completedDeliveryStop # NULL

\* C26: whenever the delivery image modal is displayed the status is
\* DELIVERING, playing is false, the target is the completed stop and that
\* stop is delivered, so dismissing the modal advances from the stop just
\* delivered.
C26_ImageModalAtDeliveredStop ==
  ImageModalShown =>
    /\ status = "DELIVERING"
    /\ ~santa.isPlaying
    /\ santa.targetStopId = completedDeliveryStop
    /\ Delivered(stops, completedDeliveryStop)

\* C27: whenever the status is FINISHED every stop of the registry has been
\* arrived at during the current run; a run never finishes with a stop Santa
\* did not reach.
C27_FinishedVisitedAll ==
  status = "FINISHED" => IdSet(stops) \subseteq arrived

----------------------------------------------------------------------------
(* One delivery run over a registry whose stops carry any coordinates a     *)
(* Stop can hold, NaN and Infinity included: the inputs the guards of the   *)
(* animation frame are written for.                                         *)

FrameCoordinates ==
  [lat : GeoLats \cup {NaN, Infinity}, lng : {NORTH_POLE.lng, NaN, Infinity}]

FrameRegistries ==
  {StopsAt(cs) : cs \in UNION {[1..n -> FrameCoordinates] : n \in 1..MaxStops}}

FrameInit ==
  /\ stops \in FrameRegistries
  /\ nextId = Len(stops) + 1
  /\ santa = InitialSanta
  /\ status = "PLANNING"
  /\ loading = FALSE
  /\ pendingDeliveryStop = NULL
  /\ isGeneratingImage = FALSE
  /\ deliveryImage = FALSE
  /\ completedDeliveryStop = NULL
  /\ stateRef = Snapshot(InitialSanta, stops, "PLANNING", NULL)
  /\ lastArrivalStopIdRef = NULL
  /\ requests = <<>>
  /\ seqs = <<>>
  /\ runs = 0
  /\ staleFrames = 0
  /\ requestRef = FALSE
  /\ arrived = {}
  /\ lastOp = Op("commit", NULL)

FrameSpec == FrameInit /\ [][LiveNext]_vars

\* the frame has a target stop, and a coordinate of that stop or the distance
\* to it is not finite
NonFiniteFrame ==
  LET currentSanta == stateRef.santa
      targetStop == Find(stateRef.stops, currentSanta.targetStopId)
  IN /\ currentSanta.isPlaying
     /\ currentSanta.targetStopId # NULL
     /\ targetStop # NullStop
     /\ \/ ~isFinite(targetStop.coordinates.lat)
        \/ ~isFinite(targetStop.coordinates.lng)
        \/ ~isFinite(FrameDist)

MoveFrame(deltaTime) ==
  /\ Animate(deltaTime)
  /\ HasTarget
  /\ ~Arrived(FrameDist, Step(stateRef.santa.speed, deltaTime))

\* the distance between a position and the coordinates of a stop
DistTo(pos, c) == Dist(c.lat - pos.lat, c.lng - pos.lng)

\* C29: a frame that does not meet the arrival condition moves the position
\* toward the target by exactly step: the distance to the target decreases by
\* step and the position does not pass beyond the target, also when the frame
\* read a snapshot that the previous frame's move had not reached yet.
C29_MoveStaysBeforeTarget ==
  [][\A dt \in DeltaTimes :
       MoveFrame(dt) =>
         LET c == Find(stateRef.stops, stateRef.santa.targetStopId).coordinates
             step == Step(stateRef.santa.speed, dt)
         IN  /\ DistTo(santa'.currentPosition, c)
                  = DistTo(santa.currentPosition, c) - step
             /\ (c.lat - santa'.currentPosition.lat)
                  * (c.lat - santa.currentPosition.lat) >= 0]_vars

====
